---- MODULE Spec2Model ----
(***************************************************************************)
(* Model of src/main.py: a FastAPI service over one SQL table `users`.     *)
(*                                                                         *)
(* State: the rows of the `users` table, the create_user requests that     *)
(* have passed the email check of line 92 and not yet reached db.commit()  *)
(* of line 98 (FastAPI runs `def` handlers in a thread pool, so handlers   *)
(* of different requests interleave at their database statements), and the *)
(* response of the last request that completed.                            *)
(*                                                                         *)
(* Spec is the whole service.  SpecCreate is registration alone, with its   *)
(* interleavings; SpecSerial is the service with requests served one at a  *)
(* time, which reaches every store Spec reaches.                           *)
(*                                                                         *)
(* An Optional[str] is modelled as a sequence of length 0 (None) or 1.     *)
(* The `timestamp` column (datetime.now()) plays no part in any handler's  *)
(* control flow and is left out of the rows.                               *)
(***************************************************************************)
EXTENDS Integers, Sequences, FiniteSets, Bags, TLC

VARIABLES users, pending, resp

vars == <<users, pending, resp>>

(***************************************************************************)
(* Bounds of the model.                                                    *)
(***************************************************************************)
NumEmails == 3
MaxInFlight == 2
MaxPage == 2
MaxPerPage == 2

(***************************************************************************)
(* Input domains.                                                          *)
(***************************************************************************)
None == <<>>

Some(s) == <<s>>

EmailPool == <<"a@x.io", "b@x.io", "c@x.io", "d@x.io", "e@x.io">>

Emails == {EmailPool[i] : i \in 1..NumEmails}

Names == {"Ada"}

Passwords == {"pw1"}

Codes == {None, Some("X")}

\* class UserBase / UserCreate: the request body of POST /users/
UserCreate == [name : Names, email : Emails, password : Passwords, referral_code : Codes]

\* path parameter user_id: the identifiers the store can hand out, and 0, which it never does
UserIds == 0..NumEmails

Pages == 0..MaxPage

PerPages == (-1)..MaxPerPage

(***************************************************************************)
(* Python arithmetic and slicing.                                          *)
(***************************************************************************)
Min(a, b) == IF a <= b THEN a ELSE b

\* a // b for b # 0: the floor of the quotient, whatever the signs
PyFloorDiv(a, b) == IF b > 0 THEN a \div b ELSE (0 - a) \div (0 - b)

\* one bound of list[start:stop]: negative counts from the end, then clamped to 0..len
PyClamp(i, len) == IF i < 0 THEN (IF i + len < 0 THEN 0 ELSE i + len) ELSE Min(i, len)

\* list[start:stop]
PySlice(list, start, stop) ==
    LET s == PyClamp(start, Len(list))
        e == PyClamp(stop, Len(list))
    IN  IF s < e THEN SubSeq(list, s + 1, e) ELSE <<>>

(***************************************************************************)
(* The `users` table and the queries of the handlers.                      *)
(***************************************************************************)
\* UserModel(**user.dict(), id=str(uuid.uuid4()), ...): uuid4 is modelled as the
\* next identifier never handed out (rows are never deleted).
UserModel(u, id) ==
    [id |-> id, name |-> u.name, email |-> u.email, password |-> u.password,
     referral_code |-> u.referral_code]

NewId(us) == Len(us) + 1

\* query.first(): None or the first row
First(rows) == IF rows = <<>> THEN None ELSE Some(Head(rows))

\* a slip: the filter compares the name column
ByEmail_OnName(us, email) ==
    LET Test(r) == r.name = email IN SelectSeq(us, Test)

\* db.query(UserModel).filter(UserModel.email == email)
ByEmail(us, email) ==
    LET Test(r) == r.email = email IN SelectSeq(us, Test)

\* db.query(UserModel).filter(UserModel.id == user_id)
ById(us, user_id) ==
    LET Test(r) == r.id = user_id IN SelectSeq(us, Test)

\* a slip: `referral_code = ?` bound to NULL, which no row satisfies
ByReferralCode_SqlEquals(us, referral_code) ==
    LET Test(r) == /\ referral_code # None
                   /\ r.referral_code # None
                   /\ r.referral_code[1] = referral_code[1]
    IN  SelectSeq(us, Test)

\* a slip: the filter is left out
ByReferralCode_Unfiltered(us, referral_code) == us

\* db.query(UserModel).filter(UserModel.referral_code == referral_code):
\* SQLAlchemy renders `column == None` as `referral_code IS NULL` and any other
\* value as `referral_code = ?`, which no NULL column satisfies.
ByReferralCode(us, referral_code) ==
    LET Test(r) == IF referral_code = None
                   THEN r.referral_code = None
                   ELSE r.referral_code # None /\ r.referral_code[1] = referral_code[1]
    IN  SelectSeq(us, Test)

\* a slip: the column is declared without unique=True
UniqueViolation_Undeclared(us, email) == FALSE

\* Column(String, unique=True): the constraint an INSERT of this email would break
UniqueViolation(us, email) == \E i \in 1..Len(us) : us[i].email = email

\* list(reversed(rows))
Reverse(rows) == [i \in 1..Len(rows) |-> rows[Len(rows) + 1 - i]]

\* query.all(): the query has no ORDER BY, so the order of the rows is the
\* database's choice.  SQLite scans the table from the first row to the last,
\* or from the last to the first under PRAGMA reverse_unordered_selects.
All(rows) == {rows, Reverse(rows)}

(***************************************************************************)
(* Responses.  A handler ends by returning (200), by raising HTTPException *)
(* (400, 404) or by raising an exception no handler catches, which FastAPI *)
(* answers with 500 Internal Server Error.                                 *)
(***************************************************************************)
NoRequest == [user_id |-> 0, page |-> 0, per_page |-> 0, payload |-> None]

Response(op, req, status, detail, body) ==
    [op |-> op, user_id |-> req.user_id, page |-> req.page, per_page |-> req.per_page,
     payload |-> req.payload, status |-> status, detail |-> detail, body |-> body,
     referral |-> <<>>, total_pages |-> 0]

(***************************************************************************)
(* read_referral, lines 131-139: the pagination of the list `referral`.    *)
(***************************************************************************)
\* a slip: the quotient rounded down
TotalPages_RoundedDown(total_records, per_page) == PyFloorDiv(total_records, per_page)

TotalPages(total_records, per_page) == PyFloorDiv(total_records + per_page - 1, per_page)

\* a slip: pages counted from 0
StartIndex_FromZero(page, per_page) == page * per_page

StartIndex(page, per_page) == (page - 1) * per_page

EndIndex(page, per_page, total_records) ==
    Min(StartIndex(page, per_page) + per_page, total_records)

PageOf(referral, page, per_page) ==
    PySlice(referral, StartIndex(page, per_page), EndIndex(page, per_page, Len(referral)))

\* lines 131-139, given the list `referral` of line 127
Paginate(req, referral) ==
    IF req.per_page = 0
    THEN [Response("read_referral", req, 500, "ZeroDivisionError", <<>>)
            EXCEPT !.referral = referral]
    ELSE LET total_pages == TotalPages(Len(referral), req.per_page)
         IN  IF req.page < 1 \/ req.page > total_pages
             THEN [Response("read_referral", req, 404, "Invalid page number", <<>>)
                     EXCEPT !.referral = referral, !.total_pages = total_pages]
             ELSE [Response("read_referral", req, 200, "",
                            PageOf(referral, req.page, req.per_page))
                     EXCEPT !.referral = referral, !.total_pages = total_pages]

(***************************************************************************)
(* The handlers.                                                           *)
(***************************************************************************)
CreateRequest(u) == [NoRequest EXCEPT !.payload = Some(u)]

\* create_user, lines 96-100: db.add, db.commit, db.refresh, return.  The INSERT
\* of db.commit() raises IntegrityError when the email is stored by then.
Commit(us, u) ==
    IF UniqueViolation(us, u.email)
    THEN [users |-> us,
          resp |-> Response("create_user", CreateRequest(u), 500, "IntegrityError", <<>>)]
    ELSE LET db_user == UserModel(u, NewId(us))
         IN  [users |-> Append(us, db_user),
              resp |-> Response("create_user", CreateRequest(u), 200, "", <<db_user>>)]

\* create_user, lines 92-94: the email check.  A request that passes it is in
\* flight until its commit.
CreateUserCall(u) ==
    /\ BagCardinality(pending) < MaxInFlight
    /\ LET existing_user == First(ByEmail(users, u.email))
       IN  IF existing_user # None
           THEN /\ resp' = Response("create_user", CreateRequest(u), 400,
                                    "User with this email already exists", <<>>)
                /\ UNCHANGED <<users, pending>>
           ELSE /\ pending' = pending (+) SetToBag({u})
                /\ UNCHANGED <<users, resp>>

\* create_user, lines 96-100, of a request in flight
CreateUserCommit(u) ==
    /\ BagIn(u, pending)
    /\ pending' = pending (-) SetToBag({u})
    /\ users' = Commit(users, u).users
    /\ resp' = Commit(users, u).resp

\* create_user, lines 92-100, run while no other request is in flight
CreateUserAlone(u) ==
    /\ pending = EmptyBag
    /\ LET existing_user == First(ByEmail(users, u.email))
       IN  IF existing_user # None
           THEN /\ resp' = Response("create_user", CreateRequest(u), 400,
                                    "User with this email already exists", <<>>)
                /\ UNCHANGED users
           ELSE /\ users' = Commit(users, u).users
                /\ resp' = Commit(users, u).resp
    /\ UNCHANGED pending

\* get_all_users, lines 104-107
GetAllUsers ==
    /\ \E all \in All(users) : resp' = Response("get_all_users", NoRequest, 200, "", all)
    /\ UNCHANGED <<users, pending>>

\* a slip: the test of line 115 is left out
ReadUserResult_Unchecked(us, user_id) ==
    Response("read_user", [NoRequest EXCEPT !.user_id = user_id], 200, "",
             First(ById(us, user_id)))

\* read_user, lines 112-117
ReadUserResult(us, user_id) ==
    LET user == First(ById(us, user_id))
        req == [NoRequest EXCEPT !.user_id = user_id]
    IN  IF user = None
        THEN Response("read_user", req, 404, "User not found", <<>>)
        ELSE Response("read_user", req, 200, "", user)

ReadUser(user_id) ==
    /\ resp' = ReadUserResult(users, user_id)
    /\ UNCHANGED <<users, pending>>

\* read_referral, lines 122-139.  `None[0]` of line 125 raises TypeError.  The
\* test of line 128 never holds: query.all() returns a list.
ReadReferral(user_id, page, per_page) ==
    /\ LET req == [NoRequest EXCEPT !.user_id = user_id, !.page = page, !.per_page = per_page]
           check_current_user_refrel == First(ById(users, user_id))
       IN  IF check_current_user_refrel = None
           THEN resp' = Response("read_referral", req, 500, "TypeError", <<>>)
           ELSE LET referral_code == check_current_user_refrel[1].referral_code
                IN  \E referral \in All(ByReferralCode(users, referral_code)) :
                        resp' = Paginate(req, referral)
    /\ UNCHANGED <<users, pending>>

\* Base.metadata.create_all on a new test.db: no rows, no request in flight
Init ==
    /\ users = <<>>
    /\ pending = EmptyBag
    /\ resp = Response("none", NoRequest, 0, "", <<>>)

\* the service: requests of every kind, create_user requests interleaving
\* between their email check and their commit
Next ==
    \/ \E u \in UserCreate : CreateUserCall(u)
    \/ \E u \in UserCreate : CreateUserCommit(u)
    \/ GetAllUsers
    \/ \E user_id \in UserIds : ReadUser(user_id)
    \/ \E user_id \in UserIds, page \in Pages, per_page \in PerPages :
          ReadReferral(user_id, page, per_page)

Spec == Init /\ [][Next]_vars

\* registration alone: create_user requests interleaving between their email
\* check and their commit.  The other handlers change neither the rows nor the
\* requests in flight.
NextCreate ==
    \/ \E u \in UserCreate : CreateUserCall(u)
    \/ \E u \in UserCreate : CreateUserCommit(u)

SpecCreate == Init /\ [][NextCreate]_vars

\* the service with its requests served one at a time: what each handler
\* answers over every store
NextSerial ==
    \/ \E u \in UserCreate : CreateUserAlone(u)
    \/ GetAllUsers
    \/ \E user_id \in UserIds : ReadUser(user_id)
    \/ \E user_id \in UserIds, page \in Pages, per_page \in PerPages :
          ReadReferral(user_id, page, per_page)

SpecSerial == Init /\ [][NextSerial]_vars

(***************************************************************************)
(* Vocabulary of the properties.                                           *)
(***************************************************************************)
Stored(user_id) == \E i \in 1..Len(users) : users[i].id = user_id

StoredUser(user_id) == CHOOSE r \in {users[i] : i \in 1..Len(users)} : r.id = user_id

EmailStored(email) == \E i \in 1..Len(users) : users[i].email = email

Rows(list) == {list[i] : i \in 1..Len(list)}

\* the response in hand answers read_referral for a stored user
ReferralOfStored == resp.op = "read_referral" /\ Stored(resp.user_id)

\* the least k with k * d >= n, for d >= 1
Ceiling(n, d) == CHOOSE k \in 0..n : k * d >= n /\ (k = 0 \/ (k - 1) * d < n)

\* what read_referral answers for page k of the list and page size of the response in hand
PageResponse(k) ==
    Paginate([NoRequest EXCEPT !.user_id = resp.user_id, !.page = k,
                               !.per_page = resp.per_page], resp.referral)

RECURSIVE PagesUpTo(_)
PagesUpTo(k) == IF k = 0 THEN <<>> ELSE PagesUpTo(k - 1) \o PageResponse(k).body

(***************************************************************************)
(* C1.  A create_user request whose email is the email of a stored user    *)
(* is answered 400 "User with this email already exists", and the step     *)
(* changes neither the stored users nor the requests in flight.            *)
(***************************************************************************)
C1_DuplicateEmailRejected ==
    [][\A u \in UserCreate :
          (CreateUserCall(u) /\ EmailStored(u.email)) =>
              /\ resp'.op = "create_user"
              /\ resp'.payload = Some(u)
              /\ resp'.status = 400
              /\ resp'.detail = "User with this email already exists"
              /\ users' = users
              /\ pending' = pending]_vars

C1_Witness ==
    /\ resp.op = "create_user"
    /\ resp.status = 400
    /\ EmailStored(resp.payload[1].email)
    /\ Len(users) >= 2

(***************************************************************************)
(* C2.  A create_user request that passed the email check (its email was   *)
(* the email of no stored user when it was called) is answered 200 with a  *)
(* row that has a fresh identifier and the submitted name, email, password *)
(* and referral_code; read_user of that identifier answers 200 with that   *)
(* row; and no step changes or removes a stored row.                       *)
(***************************************************************************)
C2_CreateSucceedsAndStays ==
    [][/\ \A u \in UserCreate :
             CreateUserCommit(u) =>
                 /\ resp'.status = 200
                 /\ Len(resp'.body) = 1
                 /\ ~Stored(resp'.body[1].id)
                 /\ resp'.body[1] = UserModel(u, resp'.body[1].id)
                 /\ ReadUserResult(users', resp'.body[1].id).status = 200
                 /\ ReadUserResult(users', resp'.body[1].id).body = resp'.body
       /\ Len(users') >= Len(users)
       /\ \A i \in 1..Len(users) : users'[i] = users[i]]_vars

(***************************************************************************)
(* C3.  read_referral with a user_id of no stored user is answered 404,    *)
(* whatever page and per_page are.                                         *)
(***************************************************************************)
C3_ReferralOfUnknownUserNotFound ==
    (resp.op = "read_referral" /\ ~Stored(resp.user_id)) => resp.status = 404

(***************************************************************************)
(* C4, as claimed.  read_referral for a stored user whose referral_code is *)
(* null matches no user: total_pages is 0 and page 1 is answered 404.      *)
(***************************************************************************)
C4_NullCodeMatchesNobody ==
    (ReferralOfStored /\ StoredUser(resp.user_id).referral_code = None) =>
        /\ resp.referral = <<>>
        /\ resp.total_pages = 0
        /\ resp.page = 1 => resp.status = 404

(***************************************************************************)
(* C4, amended.  read_referral for a stored user whose referral_code is    *)
(* null matches exactly the stored users whose referral_code is null, the  *)
(* user itself among them; so for per_page >= 1 total_pages is at least 1  *)
(* and page 1 is answered 200 with the first min(per_page, matches) of     *)
(* the matches.                                                            *)
(***************************************************************************)
C4_NullCodeMatchesNullCodes ==
    (ReferralOfStored /\ StoredUser(resp.user_id).referral_code = None) =>
        /\ Rows(resp.referral) = {r \in Rows(users) : r.referral_code = None}
        /\ StoredUser(resp.user_id) \in Rows(resp.referral)
        /\ resp.per_page >= 1 =>
              /\ resp.total_pages >= 1
              /\ resp.page = 1 =>
                    /\ resp.status = 200
                    /\ resp.body = SubSeq(resp.referral, 1,
                                          Min(resp.per_page, Len(resp.referral)))

C4_Witness ==
    /\ ReferralOfStored
    /\ StoredUser(resp.user_id).referral_code = None
    /\ resp.page = 1
    /\ resp.per_page = 1
    /\ resp.status = 200
    /\ Len(resp.referral) = 2
    /\ \E r \in Rows(users) : r.referral_code # None

(***************************************************************************)
(* C5.  Every response is a success (200), 400 from create_user, or 404:   *)
(* no request ends in an unhandled exception (500).                        *)
(***************************************************************************)
C5_OnlyTwoErrorKinds ==
    resp.op # "none" =>
        /\ resp.status \in {200, 400, 404}
        /\ resp.status = 400 => resp.op = "create_user"

(***************************************************************************)
(* C6.  No two stored users have the same email, also when create_user     *)
(* requests interleave between their email check and their commit.         *)
(***************************************************************************)
C6_OneUserPerEmail ==
    \A i, j \in 1..Len(users) : users[i].email = users[j].email => i = j

\* two requests with one email were in flight together and the later commit was refused
C6_Witness ==
    /\ resp.op = "create_user"
    /\ resp.status = 500
    /\ EmailStored(resp.payload[1].email)

(***************************************************************************)
(* C7.  read_referral for a stored user A matches exactly the stored users *)
(* whose referral_code equals A's, A among them, each once; and when       *)
(* per_page is at least the number of matches, page 1 is answered 200 with *)
(* all of them and nobody else.                                            *)
(***************************************************************************)
C7_MatchesAreSameCodeUsers ==
    ReferralOfStored =>
        LET A == StoredUser(resp.user_id)
            same == {r \in Rows(users) : r.referral_code = A.referral_code}
        IN  /\ Rows(resp.referral) = same
            /\ Len(resp.referral) = Cardinality(same)
            /\ A \in same
            /\ (resp.page = 1 /\ resp.per_page >= Len(resp.referral)) =>
                  /\ resp.status = 200
                  /\ Rows(resp.body) = same
                  /\ Len(resp.body) = Cardinality(same)

C7_Witness ==
    /\ ReferralOfStored
    /\ StoredUser(resp.user_id).referral_code = Some("X")
    /\ resp.page = 1
    /\ resp.per_page >= 2
    /\ Len(resp.body) = 2
    /\ Len(users) = 3

(***************************************************************************)
(* C8.  read_user with a user_id of no stored user is answered 404, and a  *)
(* step that ends with the answer of read_user, get_all_users or           *)
(* read_referral in hand leaves the stored users as they were.             *)
(***************************************************************************)
C8_ReadsNotFoundAndFrame ==
    /\ []((resp.op = "read_user" /\ ~Stored(resp.user_id)) =>
              (resp.status = 404 /\ resp.detail = "User not found"))
    /\ [][resp'.op \in {"read_user", "get_all_users", "read_referral"} => users' = users]_vars

C8_Witness ==
    /\ resp.op = "read_user"
    /\ ~Stored(resp.user_id)
    /\ resp.status = 404
    /\ Len(users) >= 1

(***************************************************************************)
(* C9.  read_referral for a stored user with per_page >= 1: total_pages is *)
(* the ceiling of matches / per_page; the answer is 404 exactly when       *)
(* page < 1 or page > total_pages; otherwise it is 200 with the matches at *)
(* positions (page-1)*per_page up to min(page*per_page, matches).          *)
(***************************************************************************)
C9_PageOfMatches ==
    (ReferralOfStored /\ resp.per_page >= 1) =>
        LET n == Len(resp.referral)
            lo == (resp.page - 1) * resp.per_page
            hi == Min(resp.page * resp.per_page, n)
        IN  /\ resp.total_pages = Ceiling(n, resp.per_page)
            /\ resp.status \in {200, 404}
            /\ resp.status = 404 <=> (resp.page < 1 \/ resp.page > resp.total_pages)
            /\ resp.status = 200 =>
                  /\ Len(resp.body) = hi - lo
                  /\ \A i \in 1..(hi - lo) : resp.body[i] = resp.referral[lo + i]

C9_Witness ==
    /\ ReferralOfStored
    /\ resp.per_page = 2
    /\ resp.page = 2
    /\ resp.total_pages = 2
    /\ Len(resp.referral) = 3
    /\ resp.status = 200
    /\ Len(resp.body) = 1

(***************************************************************************)
(* C10.  For one list of matches and one per_page >= 1, the pages          *)
(* 1..total_pages of read_referral partition the list: each page is        *)
(* answered 200, is non-empty and has at most per_page users, every page   *)
(* but the last has exactly per_page, no user is on two pages, and the     *)
(* pages in order make up the list.                                        *)
(***************************************************************************)
C10_PagesPartitionMatches ==
    (ReferralOfStored /\ resp.per_page >= 1) =>
        /\ \A k \in 1..resp.total_pages :
              /\ PageResponse(k).status = 200
              /\ Len(PageResponse(k).body) >= 1
              /\ Len(PageResponse(k).body) <= resp.per_page
              /\ k < resp.total_pages => Len(PageResponse(k).body) = resp.per_page
        /\ \A k, l \in 1..resp.total_pages :
              k # l => Rows(PageResponse(k).body) \cap Rows(PageResponse(l).body) = {}
        /\ PagesUpTo(resp.total_pages) = resp.referral

C10_Witness ==
    /\ ReferralOfStored
    /\ resp.per_page = 2
    /\ resp.total_pages = 2
    /\ Len(resp.referral) = 3
    /\ Len(PageResponse(1).body) = 2
    /\ Len(PageResponse(2).body) = 1

====
